---- MODULE Spec2Model ----
(***************************************************************************)
(* SRT Video Storyboarder (src/App.tsx): the subtitle parser parseSrt, the *)
(* randomised block segmenter createBlocks, the aggregator analyzeSrt and  *)
(* the handlers of the App component that call them.                       *)
(*                                                                         *)
(* Specifications: SpecSeg, SpecParse and SpecAnalyze run one call of      *)
(* createBlocks, parseSrt and analyzeSrt; SpecCalls runs either of the two *)
(* loops; SpecUI is the upload zone (size fields, file input, FileReader); *)
(* SpecBoard is the storyboard (image assignment, AI requests, zip, Start  *)
(* Over) with the size fields left at their defaults.                      *)
(*                                                                         *)
(* Units: times are integers in milliseconds (the code computes seconds    *)
(* as H*3600 + M*60 + S + ms/1000).                                        *)
(* Strings: a line is a sequence of tokens (a run of digits, a word, a     *)
(* space, ":", ",", "-->", "\r"); a text is a non-empty sequence of lines, *)
(* i.e. the string split at "\n" (the empty string is one empty line).     *)
(***************************************************************************)
EXTENDS Integers, Sequences, FiniteSets, TLC

VARIABLES
    cb,     \* the frame of one createBlocks call; iter counts its iterations
    ps,     \* the frame of one parseSrt call; iter counts its iterations
    app,    \* the state of the App component (its useState cells)
    reader, \* the FileReader loads started and not yet delivered
    an,     \* the frame of one analyzeSrt call
    ai      \* the generateImageFromText requests not yet settled

vars == <<cb, ps, app, reader, an, ai>>

(***************************************************************************)
(* Bounds                                                                  *)
(***************************************************************************)
MaxEntries == 10   \* longest entry sequence handed to createBlocks
MaxSize == 8       \* largest minBlockSize / maxBlockSize argument
MaxIter == MaxEntries + 1   \* loop iterations followed in one createBlocks call

(***************************************************************************)
(* JavaScript numbers: integers plus NaN; every comparison with NaN is     *)
(* false and every arithmetic operation on NaN gives NaN.                  *)
(***************************************************************************)
NaN == 0 - 1000000

IsNaN(x) == x = NaN

JsLt(a, b) == ~IsNaN(a) /\ ~IsNaN(b) /\ a < b

JsLe(a, b) == ~IsNaN(a) /\ ~IsNaN(b) /\ a <= b

JsGt(a, b) == ~IsNaN(a) /\ ~IsNaN(b) /\ a > b

JsAdd(a, b) == IF IsNaN(a) \/ IsNaN(b) THEN NaN ELSE a + b

JsSub(a, b) == IF IsNaN(a) \/ IsNaN(b) THEN NaN ELSE a - b

MathMin(a, b) == IF IsNaN(a) \/ IsNaN(b) THEN NaN ELSE IF a < b THEN a ELSE b

\* a slice that starts one element late
Slice_SkipFirst(s, from, to) ==
    LET e == IF IsNaN(to) THEN 0 ELSE IF to > Len(s) THEN Len(s) ELSE to
    IN  IF e <= from + 1 THEN <<>> ELSE SubSeq(s, from + 2, e)

\* Array.prototype.slice(from, to) with an integer from >= 0: a NaN end is 0,
\* a negative end counts from the back, an end past the array is its length.
Slice(s, from, to) ==
    LET e == IF IsNaN(to) THEN 0
             ELSE IF to > Len(s) THEN Len(s)
             ELSE IF to < 0 THEN (IF Len(s) + to < 0 THEN 0 ELSE Len(s) + to)
             ELSE to
    IN  IF e <= from THEN <<>> ELSE SubSeq(s, from + 1, e)

(***************************************************************************)
(* Texts                                                                   *)
(***************************************************************************)
RECURSIVE Flatten(_)
Flatten(ss) == IF ss = <<>> THEN <<>> ELSE Head(ss) \o Flatten(Tail(ss))

\* Array.prototype.join('\n') over texts: no element gives the empty string.
JoinNl(texts) == IF texts = <<>> THEN << <<>> >> ELSE Flatten(texts)

NoImage == "undefined"

(***************************************************************************)
(* createBlocks                                                            *)
(***************************************************************************)
\* a draw that ignores the lower limit
RandomBlockSize_FromOne(currentMin, currentMax) ==
    IF IsNaN(currentMin) \/ IsNaN(currentMax) THEN {NaN}
    ELSE 1 .. currentMax

\* a draw whose range is one too wide
RandomBlockSize_OneMore(currentMin, currentMax) ==
    IF IsNaN(currentMin) \/ IsNaN(currentMax) THEN {NaN}
    ELSE currentMin .. (currentMax + 1)

\* Math.floor(Math.random() * (currentMax - currentMin + 1)) + currentMin,
\* Math.random() being any real in [0, 1).
RandomBlockSize(currentMin, currentMax) ==
    IF IsNaN(currentMin) \/ IsNaN(currentMax) THEN {NaN}
    ELSE IF currentMax >= currentMin THEN currentMin .. currentMax
    ELSE (currentMax + 1) .. currentMin

\* a look-ahead that never merges the short remainder
LookAhead_NoMerge(len, i, blockSize, minBlockSize) == blockSize

\* the look-ahead of the first random branch
LookAhead(len, i, blockSize, minBlockSize) ==
    IF JsLt(JsAdd(i, blockSize), len)
       /\ JsLt(JsSub(len, JsAdd(i, blockSize)), minBlockSize)
    THEN len - i
    ELSE blockSize

\* the values blockSize can take in the iteration that starts at cursor i
BlockSizes(len, i, minBlockSize, maxBlockSize) ==
    LET remainingSubtitles == len - i
        currentMin == MathMin(minBlockSize, remainingSubtitles)
        currentMax == MathMin(maxBlockSize, remainingSubtitles)
    IN  IF JsLe(remainingSubtitles, minBlockSize)
        THEN {remainingSubtitles}
        ELSE IF JsLt(JsSub(remainingSubtitles, currentMax), minBlockSize)
                /\ JsGt(remainingSubtitles, minBlockSize)
             THEN {LookAhead(len, i, c, minBlockSize) :
                       c \in RandomBlockSize(currentMin, currentMax)}
             ELSE RandomBlockSize(currentMin, currentMax)

\* a block whose duration is taken from its last member alone
MakeBlock_LastOnly(blocks, chunk) ==
    [id        |-> Len(blocks) + 1,
     subtitles |-> chunk,
     text      |-> JoinNl([k \in 1..Len(chunk) |-> chunk[k].text]),
     duration  |-> JsSub(chunk[Len(chunk)].end, chunk[Len(chunk)].start),
     image     |-> NoImage]

\* a block numbered from 0
MakeBlock_ZeroBased(blocks, chunk) ==
    [id        |-> Len(blocks),
     subtitles |-> chunk,
     text      |-> JoinNl([k \in 1..Len(chunk) |-> chunk[k].text]),
     duration  |-> JsSub(chunk[Len(chunk)].end, chunk[1].start),
     image     |-> NoImage]

\* the block pushed for a non-empty chunk; the id `block-${n}` is kept as n
MakeBlock(blocks, chunk) ==
    [id        |-> Len(blocks) + 1,
     subtitles |-> chunk,
     text      |-> JoinNl([k \in 1..Len(chunk) |-> chunk[k].text]),
     duration  |-> JsSub(chunk[Len(chunk)].end, chunk[1].start),
     image     |-> NoImage]

\* one iteration of the while loop: the possible (i, blocks) after it
BlockIter(subtitles, i, blocks, minBlockSize, maxBlockSize) ==
    { LET chunk == Slice(subtitles, i, JsAdd(i, blockSize))
      IN  [i      |-> JsAdd(i, blockSize),
           blocks |-> IF chunk = <<>> THEN blocks
                      ELSE Append(blocks, MakeBlock(blocks, chunk))] :
        blockSize \in BlockSizes(Len(subtitles), i, minBlockSize, maxBlockSize) }

(***************************************************************************)
(* Entry sequences handed to createBlocks                                  *)
(***************************************************************************)
\* a chronological sequence of distinct entries
ChronoEntry(k) ==
    [id |-> k, start |-> (k - 1) * 2000, end |-> k * 2000 - 500,
     text |-> << <<"line", " ", ToString(k)>> >>]

\* entries with repeated index numbers, inverted and out-of-order times and
\* two-line texts
WildEntry(k) ==
    [id |-> 1 + (k % 2), start |-> (MaxEntries + 2 - k) * 1000,
     end |-> (MaxEntries + 2 - k) * 1000 - (k % 3) * 700,
     text |-> << <<"w", ToString(k)>>, <<"again">> >>]

HiThere ==
    << [id |-> 1, start |-> 0, end |-> 2000, text |-> << <<"Hi">> >>],
       [id |-> 2, start |-> 2000, end |-> 5000,
        text |-> << <<"there", " ", "friend">> >>] >>

EntryInputs ==
    { [k \in 1..n |-> ChronoEntry(k)] : n \in 0..MaxEntries }
    \cup { [k \in 1..n |-> WildEntry(k)] : n \in 1..MaxEntries }
    \cup { HiThere }

SizeInputs == 0..MaxSize

CbIdle == [pc |-> "idle", subtitles |-> <<>>, minBlockSize |-> 0,
           maxBlockSize |-> 0, i |-> 0, blocks |-> <<>>, iter |-> 0]

PsIdle == [pc |-> "idle"]

AnIdle == [pc |-> "idle"]

NullStr == "null"

Null == <<>>

\* the useState initial values of App
\* generatingAIImageBlockId === null: ids are numbers here, so null is the
\* number no block has
NoBlock == 0

Least(a, b) == IF a < b THEN a ELSE b

\* the useState initial values of App; blockErrors is the set of the block
\* ids that have a message, generationProgress is 0 or positive (1)
AppStart ==
    [blocks |-> <<>>, srtFileName |-> NullStr, srtAnalysis |-> Null,
     error |-> NullStr, minBlockSize |-> 4, maxBlockSize |-> 8,
     generationProgress |-> 0, zipUrl |-> NullStr,
     generatingAIImageBlockId |-> NoBlock, blockErrors |-> {}]

AppInit == app = AppStart /\ reader = {} /\ an = AnIdle /\ ai = {}

CbInit ==
    \E s \in EntryInputs, mn \in SizeInputs, mx \in SizeInputs :
        cb = [pc |-> "loop", subtitles |-> s, minBlockSize |-> mn,
              maxBlockSize |-> mx, i |-> 0, blocks |-> <<>>, iter |-> 0]

\* while (i < subtitles.length) { ... }
CreateBlocksLoop ==
    /\ cb.pc = "loop"
    /\ JsLt(cb.i, Len(cb.subtitles))
    /\ cb.iter < MaxIter
    /\ \E nx \in BlockIter(cb.subtitles, cb.i, cb.blocks,
                           cb.minBlockSize, cb.maxBlockSize) :
           cb' = [cb EXCEPT !.i = nx.i, !.blocks = nx.blocks,
                           !.iter = cb.iter + 1]
    /\ UNCHANGED <<ps, app, reader, an, ai>>

\* return blocks
CreateBlocksReturn ==
    /\ cb.pc = "loop"
    /\ ~JsLt(cb.i, Len(cb.subtitles))
    /\ cb' = [cb EXCEPT !.pc = "done"]
    /\ UNCHANGED <<ps, app, reader, an, ai>>

SegInit == CbInit /\ ps = PsIdle /\ AppInit

SegNext == CreateBlocksLoop \/ CreateBlocksReturn

SpecSeg == SegInit /\ [][SegNext]_vars

(***************************************************************************)
(* Strings of parseSrt                                                     *)
(***************************************************************************)
Sp == " "

Arrow == "-->"

CR == "\r"

\* the value of a destructured array element that does not exist
Undefined == <<"undefined">>

\* the digit runs that occur in the modelled files, with their values
NumVal ==
    ("0" :> 0) @@ ("1" :> 1) @@ ("2" :> 2) @@ ("7" :> 7) @@ ("00" :> 0)
    @@ ("01" :> 1) @@ ("02" :> 2) @@ ("05" :> 5) @@ ("59" :> 59)
    @@ ("000" :> 0) @@ ("500" :> 500)
    @@ ("3" :> 3) @@ ("4" :> 4) @@ ("5" :> 5) @@ ("6" :> 6) @@ ("8" :> 8)

IsSpace(t) == t \in {Sp, CR}

RECURSIVE TrimStart(_)
TrimStart(s) ==
    IF s # <<>> /\ IsSpace(Head(s)) THEN TrimStart(Tail(s)) ELSE s

RECURSIVE TrimEnd(_)
TrimEnd(s) ==
    IF s # <<>> /\ IsSpace(s[Len(s)]) THEN TrimEnd(SubSeq(s, 1, Len(s) - 1))
    ELSE s

\* String.prototype.trim on one line
Trim(s) == TrimEnd(TrimStart(s))

\* parseInt: leading white space is skipped, then a digit run is read;
\* anything else (also undefined) gives NaN
ParseInt(s) ==
    LET t == TrimStart(s)
    IN  IF t # <<>> /\ Head(t) \in DOMAIN NumVal THEN NumVal[Head(t)] ELSE NaN

Includes(s, tok) == \E k \in 1..Len(s) : s[k] = tok

\* the first position at which sep occurs in s, 0 when it does not
FirstAt(s, sep) ==
    LET hits == {k \in 1..(Len(s) - Len(sep) + 1) :
                    SubSeq(s, k, k + Len(sep) - 1) = sep}
    IN  IF hits = {} THEN 0 ELSE CHOOSE k \in hits : \A h \in hits : k <= h

\* String.prototype.split(sep) for a non-empty separator
RECURSIVE Split(_, _)
Split(s, sep) ==
    LET k == FirstAt(s, sep)
    IN  IF k = 0 THEN <<s>>
        ELSE <<SubSeq(s, 1, k - 1)>>
             \o Split(SubSeq(s, k + Len(sep), Len(s)), sep)

\* array destructuring: the k-th element or undefined
At(arr, k) == IF k <= Len(arr) THEN arr[k] ELSE Undefined

AllSpace(s) == \A k \in 1..Len(s) : IsSpace(s[k])

RECURSIVE DropBlankStart(_)
DropBlankStart(ls) ==
    IF ls # <<>> /\ AllSpace(Head(ls)) THEN DropBlankStart(Tail(ls)) ELSE ls

RECURSIVE DropBlankEnd(_)
DropBlankEnd(ls) ==
    IF ls # <<>> /\ AllSpace(ls[Len(ls)])
    THEN DropBlankEnd(SubSeq(ls, 1, Len(ls) - 1))
    ELSE ls

\* String.prototype.trim on a whole text (white space includes "\n"): the
\* blank lines at both ends go, and so does the white space at the start of
\* the first and at the end of the last remaining line
TrimText(ls) ==
    LET a == DropBlankEnd(DropBlankStart(ls))
    IN  IF a = <<>> THEN << <<>> >>
        ELSE IF Len(a) = 1 THEN <<Trim(a[1])>>
        ELSE <<TrimStart(a[1])>> \o SubSeq(a, 2, Len(a) - 1)
             \o <<TrimEnd(a[Len(a)])>>

\* replace(/\r/g, '') on one line
RemoveCR(s) == SelectSeq(s, LAMBDA t : t # CR)

\* srtText.trim().replace(/\r/g, '').split('\n')
SplitLines(srtText) ==
    LET t == TrimText(srtText) IN [k \in 1..Len(t) |-> RemoveCR(t[k])]

\* parseTimestamp throws when ts has fewer than three ':'-separated parts
\* (s is undefined and s.split fails)
TimestampThrows(ts) == Len(Split(ts, <<":">>)) < 3

\* parseTimestamp, in milliseconds
ParseTimestamp(ts) ==
    LET hms == Split(ts, <<":">>)
        h == ParseInt(At(hms, 1))
        m == ParseInt(At(hms, 2))
        sm == Split(At(hms, 3), <<",">>)
        sec == ParseInt(At(sm, 1))
        ms == ParseInt(At(sm, 2))
    IN  IF IsNaN(h) \/ IsNaN(m) \/ IsNaN(sec) \/ IsNaN(ms) THEN NaN
        ELSE (h * 3600 + m * 60 + sec) * 1000 + ms

\* the inner while loop: the first 0-based j' >= j that is past the end or
\* at a line that is blank after trim
RECURSIVE TextEnd(_, _)
TextEnd(lines, j) ==
    IF j < Len(lines) /\ Trim(lines[j + 1]) # <<>> THEN TextEnd(lines, j + 1)
    ELSE j

\* a resynchronisation that leaves the cursor where it is
SkipCue_Stay(i) == i

\* a resynchronisation that skips one line too many
SkipCue_Three(i) == i + 3

\* i += 2 after an index line without a timing line
SkipCue(i) == i + 2

\* one iteration of the outer while loop at the 0-based cursor i
ParseIter(lines, i, subtitles) ==
    LET id == ParseInt(lines[i + 1])
        timeLine == IF i + 1 < Len(lines) THEN lines[i + 2] ELSE Undefined
        parts == Split(timeLine, <<Sp, Arrow, Sp>>)
        startStr == At(parts, 1)
        endStr == At(parts, 2)
        j == TextEnd(lines, i + 2)
    IN  IF IsNaN(id)
        THEN [pc |-> "loop", i |-> i + 1, subtitles |-> subtitles]
        ELSE IF timeLine = Undefined \/ timeLine = <<>>
                \/ ~Includes(timeLine, Arrow)
        THEN [pc |-> "loop", i |-> SkipCue(i), subtitles |-> subtitles]
        ELSE IF TimestampThrows(Trim(startStr)) \/ endStr = Undefined
                \/ TimestampThrows(Trim(endStr))
        THEN [pc |-> "threw", i |-> i, subtitles |-> subtitles]
        ELSE [pc |-> "loop", i |-> j + 1,
              subtitles |-> Append(subtitles,
                  [id    |-> id,
                   start |-> ParseTimestamp(Trim(startStr)),
                   end   |-> ParseTimestamp(Trim(endStr)),
                   text  |-> JoinNl([k \in 1..(j - i - 2) |->
                                         <<lines[i + 2 + k]>>])])]

\* the outer while loop run to its end from the 0-based cursor i
RECURSIVE ParseFrom(_, _, _)
ParseFrom(lines, i, subtitles) ==
    IF i >= Len(lines) THEN [pc |-> "done", subtitles |-> subtitles]
    ELSE LET nx == ParseIter(lines, i, subtitles)
         IN  IF nx.pc = "threw" THEN [pc |-> "threw", subtitles |-> <<>>]
             ELSE ParseFrom(lines, nx.i, nx.subtitles)

\* parseSrt as a whole: the entries returned, or the exception
ParseSrt(srtText) == ParseFrom(SplitLines(srtText), 0, <<>>)

(***************************************************************************)
(* Subtitle files handed to parseSrt: a file is a sequence of cues, each   *)
(* rendered to its lines and terminated by "\n"                            *)
(***************************************************************************)
MaxCues == 3       \* most cues (well-formed or not) in a file

Stamp(h, m, s, ms) == [h |-> h, m |-> m, s |-> s, ms |-> ms]

\* HH:MM:SS,mmm
StampLine(t) == <<t.h, ":", t.m, ":", t.s, ",", t.ms>>

\* H*3600 + M*60 + S + ms/1000, in milliseconds
StampMillis(t) ==
    (NumVal[t.h] * 3600 + NumVal[t.m] * 60 + NumVal[t.s]) * 1000 + NumVal[t.ms]

TimingLine(from, to) == StampLine(from) \o <<Sp, Arrow, Sp>> \o StampLine(to)

NoEntry == [id |-> 0, start |-> 0, end |-> 0, text |-> << <<>> >>]

\* a well-formed cue: index line, timing line, text lines, blank line
WellFormed(index, from, to, body, eol) ==
    [kind  |-> "cue",
     lines |-> [k \in 1..(Len(body) + 3) |->
                   (<< <<index>>, TimingLine(from, to) >> \o body
                        \o << <<>> >>)[k] \o eol],
     entry |-> [id |-> NumVal[index], start |-> StampMillis(from),
                end |-> StampMillis(to), text |-> body]]

\* an index line followed by text lines and a blank line, no timing line
NoTiming(index, body) ==
    [kind  |-> "notiming",
     lines |-> << <<index>> >> \o body \o << <<>> >>,
     entry |-> NoEntry]

\* an index line, a line with "-->" that is no timing line, a text line
BadTiming(kind, timeLine) ==
    [kind  |-> kind,
     lines |-> << <<"1">>, timeLine, <<"Hi">>, <<>> >>,
     entry |-> NoEntry]

T1 == Stamp("00", "00", "01", "000")

T2 == Stamp("00", "00", "02", "500")

T3 == Stamp("01", "59", "05", "000")

WellFormedCues ==
    { WellFormed("1", T1, T2, << <<"Hi">> >>, <<>>),
      WellFormed("2", T2, T3, << <<"there", Sp, "friend">>, <<"7">> >>, <<>>),
      WellFormed("7", T3, T1, << <<"Hi", Sp>> >>, <<>>),
      WellFormed("1", T1, T3, << <<"2", Sp, "apples">>, <<Sp, "Hi">> >>,
                 <<CR>>) }

NoTimingCues ==
    { NoTiming("5", body) :
        body \in { << <<"Hi">> >>, << <<"7">> >>,
                   << <<"Hi">>, <<"7">> >>, << <<"7">>, <<"Hi">> >>,
                   << <<"7">>, <<"7">> >>,
                   << <<"Hi">>, <<"7">>, <<"Hi">> >>,
                   << <<"Hi">>, <<"Hi">>, <<"7">> >>,
                   << <<"7">>, <<"7">>, <<"7">> >> } }

BadTimingCues ==
    { BadTiming("nospaces", StampLine(T1) \o <<Arrow>> \o StampLine(T2)),
      BadTiming("nostamp", <<"abc", Sp, Arrow, Sp, "def">>),
      BadTiming("nocomma", <<"00", ":", "00", ":", "01", Sp, Arrow, Sp,
                             "00", ":", "00", ":", "02">>) }

JunkCues == { [kind |-> "junk", lines |-> << <<"WEBVTT">>, <<>> >>,
               entry |-> NoEntry] }

CueInputs == WellFormedCues \cup NoTimingCues \cup BadTimingCues \cup JunkCues

RECURSIVE SeqsUpTo(_, _)
SeqsUpTo(S, n) ==
    IF n = 0 THEN {<<>>}
    ELSE LET shorter == SeqsUpTo(S, n - 1)
         IN  shorter \cup {Append(q, x) : q \in shorter, x \in S}

\* the file text split at "\n": every line of every cue is followed by
\* "\n", so the last segment is empty
FileText(cues) ==
    Flatten([k \in 1..Len(cues) |-> cues[k].lines]) \o << <<>> >>

\* const subtitles = []; const lines = ...; let i = 0
PsInit ==
    \E cues \in SeqsUpTo(CueInputs, MaxCues) :
        ps = [pc |-> "loop", cues |-> cues, srtText |-> FileText(cues),
              lines |-> SplitLines(FileText(cues)), i |-> 0,
              subtitles |-> <<>>, iter |-> 0]

\* while (i < lines.length) { ... }
ParseLoop ==
    /\ ps.pc = "loop"
    /\ ps.i < Len(ps.lines)
    /\ LET nx == ParseIter(ps.lines, ps.i, ps.subtitles)
       IN  ps' = [ps EXCEPT !.pc = nx.pc, !.i = nx.i,
                            !.subtitles = nx.subtitles,
                            !.iter = ps.iter + 1]
    /\ UNCHANGED <<cb, app, reader, an, ai>>

\* return subtitles
ParseReturn ==
    /\ ps.pc = "loop"
    /\ ps.i >= Len(ps.lines)
    /\ ps' = [ps EXCEPT !.pc = "done"]
    /\ UNCHANGED <<cb, app, reader, an, ai>>

ParseInit == PsInit /\ cb = CbIdle /\ AppInit

ParseNext == ParseLoop \/ ParseReturn

SpecParse == ParseInit /\ [][ParseNext]_vars

\* one call of either function
CallsInit == SegInit \/ ParseInit

CallsNext == SegNext \/ ParseNext

SpecCalls == CallsInit /\ [][CallsNext]_vars

(***************************************************************************)
(* analyzeSrt                                                              *)
(***************************************************************************)
\* a count of the pieces that are not white space
WordsInLine_Pieces(line) ==
    Cardinality({k \in 1..Len(line) : ~IsSpace(line[k])})

\* the number of white-space-delimited non-empty tokens of one line
WordsInLine(line) ==
    Cardinality({k \in 1..Len(line) :
                    /\ ~IsSpace(line[k])
                    /\ (k = 1 \/ IsSpace(line[k - 1]))})

RECURSIVE SumSeq(_)
SumSeq(ns) == IF ns = <<>> THEN 0 ELSE Head(ns) + SumSeq(Tail(ns))

\* s.text.trim().split(/\s+/).filter(Boolean).length ("\n" is white space)
WordCount(text) == SumSeq([k \in 1..Len(text) |-> WordsInLine(text[k])])

\* Math.round((totalWords / totalDurationSeconds) * 60) for a positive
\* duration given in milliseconds; Math.round rounds halves up
RoundWPM(totalWords, durationMillis) ==
    (2 * totalWords * 60000 + durationMillis) \div (2 * durationMillis)

\* a summary that reports the blocks of an empty entry list
AnalyzeSrt_CountsBlocks(subtitles, blocks) ==
    [totalSubtitles |-> Len(subtitles), totalDurationSeconds |-> 0,
     totalWords |-> 0, averageWPM |-> 0, blockCount |-> Len(blocks)]

AnalyzeSrt(subtitles, blocks) ==
    IF Len(subtitles) = 0
    THEN [totalSubtitles |-> 0, totalDurationSeconds |-> 0, totalWords |-> 0,
          averageWPM |-> 0, blockCount |-> 0]
    ELSE LET totalDurationSeconds == subtitles[Len(subtitles)].end
             totalWords == SumSeq([k \in 1..Len(subtitles) |->
                                      WordCount(subtitles[k].text)])
         IN  [totalSubtitles |-> Len(subtitles),
              totalDurationSeconds |-> totalDurationSeconds,
              totalWords |-> totalWords,
              averageWPM |-> IF JsGt(totalDurationSeconds, 0)
                             THEN RoundWPM(totalWords, totalDurationSeconds)
                             ELSE 0,
              blockCount |-> Len(blocks)]

(***************************************************************************)
(* The App component                                                       *)
(***************************************************************************)
MaxSizeEvent == 2  \* largest number typed into a block-size field
MaxPending == 1    \* most FileReader loads in progress at a time
MaxFiles == 2      \* most files picked at once in the bulk upload
MaxRequests == 2   \* most generateImageFromText requests in flight

\* createBlocks as a whole: every block list it can return
RECURSIVE CreateBlocksFrom(_, _, _, _, _)
CreateBlocksFrom(subtitles, i, blocks, minBlockSize, maxBlockSize) ==
    IF ~JsLt(i, Len(subtitles)) THEN {blocks}
    ELSE UNION { CreateBlocksFrom(subtitles, nx.i, nx.blocks,
                                  minBlockSize, maxBlockSize) :
                 nx \in BlockIter(subtitles, i, blocks,
                                  minBlockSize, maxBlockSize) }

CreateBlocks(subtitles, minBlockSize, maxBlockSize) ==
    CreateBlocksFrom(subtitles, 0, <<>>, minBlockSize, maxBlockSize)

\* parseInt(e.target.value) of a number field: an integer, or NaN when the
\* field is empty
SizeEvents == {NaN} \cup 0..MaxSizeEvent

ThreeCues ==
    <<WellFormed("1", T1, T2, << <<"Hi">> >>, <<>>),
      WellFormed("2", T2, T3, << <<"there", Sp, "friend">>, <<"7">> >>, <<>>),
      WellFormed("7", T1, T3, << <<"2", Sp, "apples">> >>, <<>>)>>

\* a file of eight cues: the fewest that the default sizes 4 and 8 can
\* split into two blocks
EightCues ==
    [k \in 1..8 |->
        WellFormed(ToString(k), T1, T2, << <<"cue", Sp, ToString(k)>> >>,
                   <<>>)]

\* the files the user can pick, by name
FileInputs == {"empty.srt", "three.srt", "broken.srt"}

\* the files picked when the sizes are left at their defaults
BoardFileInputs == {"three.srt", "eight.srt"}

\* FileReader.readAsText: the text of each file
ReadAsText ==
    [f \in FileInputs \cup BoardFileInputs |->
        CASE f = "empty.srt" -> << <<>> >>
          [] f = "three.srt" -> FileText(ThreeCues)
          [] f = "eight.srt" -> FileText(EightCues)
          [] f = "broken.srt" ->
                FileText(<<ThreeCues[1],
                           BadTiming("nospaces",
                               StampLine(T1) \o <<Arrow>> \o StampLine(T2))>>)]

ParseFailed == "Falha ao analisar o arquivo SRT. Verifique o formato do arquivo."

UploadZoneShown == Len(app.blocks) = 0

\* if (size < 1) size = 1
ClampMin(size) == IF JsLt(size, 1) THEN 1 ELSE size

\* handleMinBlockSizeChange, called by the minimum field of the upload zone
HandleMinBlockSizeChange ==
    /\ UploadZoneShown
    /\ \E e \in SizeEvents :
         LET size == ClampMin(e)
         IN  app' = [app EXCEPT
                 !.maxBlockSize = IF JsGt(size, app.maxBlockSize) THEN size
                                  ELSE app.maxBlockSize,
                 !.minBlockSize = size]
    /\ UNCHANGED <<cb, ps, reader, an, ai>>

\* handleMaxBlockSizeChange, called by the maximum field of the upload zone
HandleMaxBlockSizeChange ==
    /\ UploadZoneShown
    /\ \E e \in SizeEvents :
         LET size == IF JsLt(e, app.minBlockSize) THEN app.minBlockSize ELSE e
         IN  app' = [app EXCEPT !.maxBlockSize = size]
    /\ UNCHANGED <<cb, ps, reader, an, ai>>

\* SrtUploadZone.handleFileChange: the load is started and its onload
\* closure keeps the sizes of the current render
HandleFileChangeOf(files) ==
    /\ UploadZoneShown
    /\ Cardinality(reader) < MaxPending
    /\ \E f \in files :
           reader' = reader \cup {[file |-> f,
                                   minBlockSize |-> app.minBlockSize,
                                   maxBlockSize |-> app.maxBlockSize]}
    /\ UNCHANGED <<cb, ps, app, an, ai>>

HandleFileChange == HandleFileChangeOf(FileInputs)

HandleBoardFileChange == HandleFileChangeOf(BoardFileInputs)

\* parseSrt(srtText) for the text of each file
ParsedFile == [f \in DOMAIN ReadAsText |-> ParseSrt(ReadAsText[f])]

\* handleSrtUpload for the text and the name of file fileName: the App
\* states it can leave behind
HandleSrtUpload(fileName, minSize, maxSize) ==
    LET parsed == ParsedFile[fileName]
    IN  IF parsed.pc = "threw"
        THEN {[app EXCEPT !.error = ParseFailed]}
        ELSE {[app EXCEPT
                 !.blocks = newBlocks,
                 !.srtAnalysis = <<AnalyzeSrt(parsed.subtitles, newBlocks)>>,
                 !.srtFileName = fileName,
                 !.error = NullStr] :
              newBlocks \in CreateBlocks(parsed.subtitles, minSize, maxSize)}

\* reader.onload: onSrtUpload(text, file.name, minBlockSize, maxBlockSize)
ReaderOnload ==
    \E r \in reader :
        /\ reader' = reader \ {r}
        /\ app' \in HandleSrtUpload(r.file, r.minBlockSize, r.maxBlockSize)
        /\ UNCHANGED <<cb, ps, an, ai>>

\* the files of the image inputs, by name
PhotoFile == "photo.png"

BulkFile == [k \in 1..(MaxFiles + 1) |-> "bulk-" \o ToString(k) \o ".png"]

\* new File([imageBlob], `${blockId}-ai-generated.${fileExtension}`)
AIFile == "ai-generated.png"

\* an assignment that replaces the image of every block
ImageSelect_All(blocks, blockId, file) ==
    [k \in 1..Len(blocks) |-> [blocks[k] EXCEPT !.image = file]]

\* currentBlocks.map(b => b.id === blockId ? {...b, image: newImage} : b)
ImageSelect(blocks, blockId, file) ==
    [k \in 1..Len(blocks) |->
        IF blocks[k].id = blockId THEN [blocks[k] EXCEPT !.image = file]
        ELSE blocks[k]]

\* a bulk assignment that keeps only the blocks it gave a file to
BulkImageSelect_Truncate(blocks, fileArray) ==
    [k \in 1..Least(Len(blocks), Len(fileArray)) |->
        [blocks[k] EXCEPT !.image = fileArray[k]]]

\* currentBlocks.map((block, index) =>
\*     index < fileArray.length ? {...block, image: newImage} : block)
BulkImageSelect(blocks, fileArray) ==
    [k \in 1..Len(blocks) |->
        IF k <= Len(fileArray) THEN [blocks[k] EXCEPT !.image = fileArray[k]]
        ELSE blocks[k]]

\* BlockCard shows its two buttons only when it is neither loading nor in
\* error and its block has no image
CardButtonsShown(block) ==
    /\ app.generatingAIImageBlockId # block.id
    /\ block.id \notin app.blockErrors
    /\ block.image = NoImage

\* handleImageSelect(blockId, file), called by the file input of a card
HandleImageSelectOn(blockId, file) ==
    /\ \E k \in 1..Len(app.blocks) :
           app.blocks[k].id = blockId /\ CardButtonsShown(app.blocks[k])
    /\ app' = [app EXCEPT !.blocks = ImageSelect(app.blocks, blockId, file)]
    /\ UNCHANGED <<cb, ps, reader, an, ai>>

HandleImageSelect ==
    \E k \in 1..Len(app.blocks) :
        HandleImageSelectOn(app.blocks[k].id, PhotoFile)

\* handleBulkImageSelect(files), called by the bulk upload above the cards;
\* an empty selection returns at once
HandleBulkImageSelectOf(fileArray) ==
    /\ ~UploadZoneShown
    /\ app' = IF Len(fileArray) = 0 THEN app
              ELSE [app EXCEPT
                      !.blocks = BulkImageSelect(app.blocks, fileArray)]
    /\ UNCHANGED <<cb, ps, reader, an, ai>>

HandleBulkImageSelect ==
    \E n \in 0..MaxFiles : HandleBulkImageSelectOf(SubSeq(BulkFile, 1, n))

\* handleGenerateImageWithAI(blockId) up to its await: the request carries
\* the text of the block found in the blocks of the current render; ai is
\* a set, so a second request with the same id and text is not started
HandleGenerateImageWithAI ==
    /\ Cardinality(ai) < MaxRequests
    /\ \E k \in 1..Len(app.blocks) :
         LET targetBlock == app.blocks[k]
             request == [blockId |-> targetBlock.id,
                         text |-> targetBlock.text]
         IN  /\ CardButtonsShown(targetBlock)
             /\ request \notin ai
             /\ ai' = ai \cup {request}
             /\ app' = [app EXCEPT
                    !.generatingAIImageBlockId = targetBlock.id,
                    !.blockErrors = app.blockErrors \ {targetBlock.id}]
    /\ UNCHANGED <<cb, ps, reader, an>>

\* generateImageFromText resolved: handleImageSelect(blockId, imageFile),
\* then the finally block
GenerateImageFulfilledFor(request) ==
    /\ request \in ai
    /\ ai' = ai \ {request}
    /\ app' = [app EXCEPT
           !.blocks = ImageSelect(app.blocks, request.blockId, AIFile),
           !.generatingAIImageBlockId = NoBlock]
    /\ UNCHANGED <<cb, ps, reader, an>>

GenerateImageFulfilled == \E request \in ai : GenerateImageFulfilledFor(request)

\* generateImageFromText rejected: the catch block, then the finally block
GenerateImageRejected ==
    /\ \E request \in ai :
         /\ ai' = ai \ {request}
         /\ app' = [app EXCEPT
                !.blockErrors = app.blockErrors \cup {request.blockId},
                !.generatingAIImageBlockId = NoBlock]
    /\ UNCHANGED <<cb, ps, reader, an>>

ZipUrl == "blob:storyboard-videos.zip"

ZipFailed == "A geração do vídeo falhou"

AllImagesUploaded ==
    \A k \in 1..Len(app.blocks) : app.blocks[k].image # NoImage

\* handleGenerateAndZip up to its await; the button is enabled when every
\* block has an image and no generation is in progress
HandleGenerateAndZip ==
    /\ ~UploadZoneShown
    /\ app.zipUrl = NullStr
    /\ AllImagesUploaded
    /\ app.generationProgress = 0
    /\ app' = [app EXCEPT !.generationProgress = 1]
    /\ UNCHANGED <<cb, ps, reader, an, ai>>

ZipInProgress == app.generationProgress > 0 /\ app.zipUrl = NullStr

\* generateAndZipVideos resolved
GenerateAndZipFulfilled ==
    /\ ZipInProgress
    /\ app' = [app EXCEPT !.zipUrl = ZipUrl]
    /\ UNCHANGED <<cb, ps, reader, an, ai>>

\* generateAndZipVideos rejected: the catch block
GenerateAndZipRejected ==
    /\ ZipInProgress
    /\ app' = [app EXCEPT !.error = ZipFailed, !.generationProgress = 0]
    /\ UNCHANGED <<cb, ps, reader, an, ai>>

\* handleStartOver, called by the button GenerationControls shows beside
\* the download link once zipUrl is set
HandleStartOver ==
    /\ ~UploadZoneShown
    /\ app.zipUrl # NullStr
    /\ app' = AppStart
    /\ UNCHANGED <<cb, ps, reader, an, ai>>

UIInit == AppInit /\ cb = CbIdle /\ ps = PsIdle

UINext ==
    \/ HandleMinBlockSizeChange
    \/ HandleMaxBlockSizeChange
    \/ HandleFileChange
    \/ ReaderOnload

\* the upload zone: the size fields and the file input
SpecUI == UIInit /\ [][UINext]_vars

\* the storyboard with the size fields left alone
BoardNext ==
    \/ HandleBoardFileChange
    \/ ReaderOnload
    \/ HandleImageSelect
    \/ HandleBulkImageSelect
    \/ HandleGenerateImageWithAI
    \/ GenerateImageFulfilled
    \/ GenerateImageRejected
    \/ HandleGenerateAndZip
    \/ GenerateAndZipFulfilled
    \/ GenerateAndZipRejected
    \/ HandleStartOver

SpecBoard == UIInit /\ [][BoardNext]_vars

(***************************************************************************)
(* A call of analyzeSrt                                                    *)
(***************************************************************************)
MaxAnalyzed == 3   \* most entries given to analyzeSrt

AnEntry(index, start, end, text) ==
    [index |-> index, start |-> start, end |-> end, text |-> text]

\* entries for analyzeSrt, each with the number of words a reader counts in
\* its text: plain words, padded and doubled white space, words made of
\* several pieces over two lines, an empty text
WordedEntries ==
    {[entry |-> AnEntry(1, 0, 20000, << <<"Hi", Sp, "there">> >>),
      words |-> 2],
     [entry |-> AnEntry(2, 40000, 60000,
                        << <<Sp, "two", Sp, Sp, "words", Sp>> >>),
      words |-> 2],
     [entry |-> AnEntry(3, 25000, 30000,
                        << <<"12", ":", "30", Sp, "pm">>, <<"ok">> >>),
      words |-> 3],
     [entry |-> AnEntry(4, 0, 0, << <<>> >>),
      words |-> 0],
     [entry |-> AnEntry(5, 500, 7000, << <<"x">>, <<>>, <<Sp, "y">> >>),
      words |-> 2]}

AnEntryInputs == {w.entry : w \in WordedEntries}

\* the block lists handed to analyzeSrt
AnBlockInputs ==
    {<<>>} \cup CreateBlocks(<<ChronoEntry(1), ChronoEntry(2)>>, 1, 1)
           \cup CreateBlocks(<<ChronoEntry(1), ChronoEntry(2)>>, 4, 8)

AnInit ==
    \E subtitles \in SeqsUpTo(AnEntryInputs, MaxAnalyzed),
       blocks \in AnBlockInputs :
        an = [pc |-> "call", subtitles |-> subtitles, blocks |-> blocks]

\* the call: analyzeSrt has no loop of its own but reduce
AnalyzeSrtCall ==
    /\ an.pc = "call"
    /\ an' = [pc |-> "done", subtitles |-> an.subtitles,
              blocks |-> an.blocks,
              result |-> AnalyzeSrt(an.subtitles, an.blocks)]
    /\ UNCHANGED <<cb, ps, app, reader, ai>>

AnalyzeInit ==
    /\ AnInit
    /\ cb = CbIdle /\ ps = PsIdle
    /\ app = AppStart /\ reader = {} /\ ai = {}

AnalyzeNext == AnalyzeSrtCall

SpecAnalyze == AnalyzeInit /\ [][AnalyzeNext]_vars

(***************************************************************************)
(* Claims about createBlocks                                               *)
(***************************************************************************)
ValidSizes == 1 <= cb.minBlockSize /\ cb.minBlockSize <= cb.maxBlockSize

Members(blocks) == Flatten([k \in 1..Len(blocks) |-> blocks[k].subtitles])

BlockSize(k) == Len(cb.blocks[k].subtitles)

\* C1: with 1 <= minSize <= maxSize, whatever the random draws, the members
\* of the blocks built so far, concatenated in block order, are exactly the
\* entries consumed so far (all of them once the call has returned), and no
\* block is empty.
C1_Partition ==
    (cb.pc \in {"loop", "done"} /\ ValidSizes) =>
        /\ \A k \in 1..Len(cb.blocks) : BlockSize(k) >= 1
        /\ cb.i \in 0..Len(cb.subtitles)
        /\ Members(cb.blocks) = SubSeq(cb.subtitles, 1, cb.i)
        /\ (cb.pc = "done" => Members(cb.blocks) = cb.subtitles)

C1_Witness ==
    /\ cb.pc = "done" /\ ValidSizes
    /\ Len(cb.blocks) >= 3
    /\ cb.subtitles[1] = WildEntry(1)

\* C2: with 1 <= minSize <= maxSize, every block but the last has its size
\* in [minSize, maxSize], and the last block of a returned list of two or
\* more blocks is not smaller than minSize (it may exceed maxSize).
C2_BlockSizes ==
    (cb.pc \in {"loop", "done"} /\ ValidSizes) =>
        /\ \A k \in 1..(Len(cb.blocks) - 1) :
               /\ BlockSize(k) >= cb.minBlockSize
               /\ BlockSize(k) <= cb.maxBlockSize
        /\ (cb.pc = "done" /\ Len(cb.blocks) >= 2) =>
               BlockSize(Len(cb.blocks)) >= cb.minBlockSize

C2_Witness ==
    /\ cb.pc = "done" /\ ValidSizes
    /\ Len(cb.blocks) >= 2
    /\ BlockSize(Len(cb.blocks)) > cb.maxBlockSize

HiThereCall ==
    /\ cb.pc = "done"
    /\ cb.subtitles = HiThere
    /\ cb.minBlockSize = 1 /\ cb.maxBlockSize = 5

OneBlockHiThere ==
    /\ Len(cb.blocks) = 1
    /\ cb.blocks[1].duration = 5000
    /\ cb.blocks[1].text = << <<"Hi">>, <<"there", " ", "friend">> >>

TwoBlocksHiThere ==
    /\ Len(cb.blocks) = 2
    /\ cb.blocks[1].duration = 2000
    /\ cb.blocks[1].text = << <<"Hi">> >>
    /\ cb.blocks[2].duration = 3000
    /\ cb.blocks[2].text = << <<"there", " ", "friend">> >>

\* C3 as stated: the two entries Hi (0-2 s) and "there friend" (2-5 s) with
\* minSize 1 and maxSize 5 always give exactly one block of duration 5 s
\* and text "Hi\nthere friend".
C3_Original == HiThereCall => OneBlockHiThere

\* C3 amended: they give either that one block (draw 2) or two blocks of one
\* entry each (draw 1), of durations 2 s and 3 s and texts "Hi" and
\* "there friend".
C3_OneOrTwoBlocks == HiThereCall => (OneBlockHiThere \/ TwoBlocksHiThere)

C3_Witness == HiThereCall /\ OneBlockHiThere

\* C10: 10 entries with minSize 4 and maxSize 8 give one or two blocks whose
\* sizes sum to 10; a non-last block has its size in [4, 8] and, of two
\* blocks, neither is smaller than 4.
C10_TenEntries ==
    (cb.pc = "done" /\ Len(cb.subtitles) = 10
        /\ cb.minBlockSize = 4 /\ cb.maxBlockSize = 8) =>
        /\ Len(cb.blocks) \in {1, 2}
        /\ Len(Members(cb.blocks)) = 10
        /\ \A k \in 1..(Len(cb.blocks) - 1) : BlockSize(k) \in 4..8
        /\ Len(cb.blocks) = 2 => (BlockSize(1) >= 4 /\ BlockSize(2) >= 4)

C10_Witness ==
    /\ cb.pc = "done" /\ Len(cb.subtitles) = 10
    /\ cb.minBlockSize = 4 /\ cb.maxBlockSize = 8
    /\ Len(cb.blocks) = 2
    /\ BlockSize(1) = 5 /\ BlockSize(2) = 5

InLoop == cb.pc = "loop" /\ cb.i < Len(cb.subtitles)

Remaining == Len(cb.subtitles) - cb.i

\* steps 3 to 6 of the segmentation algorithm of the specification: the
\* sizes the next block can have when `remaining` entries are left
SpecStep(remaining, minSize, maxSize) ==
    IF remaining <= minSize THEN {remaining}
    ELSE { IF remaining - c # 0 /\ remaining - c < minSize THEN remaining
           ELSE c :
           c \in Least(minSize, remaining) .. Least(maxSize, remaining) }

\* C13: with 1 <= minSize <= maxSize, at every iteration the sizes
\* createBlocks can give the next block are exactly those of the
\* specification's steps (all remaining entries when the candidate would
\* leave a non-zero remainder below minSize, the candidate otherwise), also
\* in the branch without look-ahead.
C13_SameSteps ==
    (InLoop /\ ValidSizes) =>
        BlockSizes(Len(cb.subtitles), cb.i, cb.minBlockSize, cb.maxBlockSize)
            = SpecStep(Remaining, cb.minBlockSize, cb.maxBlockSize)

\* an iteration in the branch without look-ahead, after a first block
C13_Witness ==
    /\ InLoop /\ ValidSizes
    /\ cb.i > 0
    /\ Remaining > cb.minBlockSize
    /\ Remaining - Least(cb.maxBlockSize, Remaining) >= cb.minBlockSize
    /\ cb.minBlockSize < cb.maxBlockSize

\* C14: the k-th block of the list has id k (block-k), duration equal to
\* its last member's end minus its first member's start, also when that is
\* negative, text equal to its members' texts joined by newline in order,
\* and no image.
C14_BlockFields ==
    cb.pc \in {"loop", "done"} =>
        \A k \in 1..Len(cb.blocks) :
            LET b == cb.blocks[k]
                n == Len(b.subtitles)
            IN  /\ b.id = k
                /\ n >= 1
                /\ b.duration = b.subtitles[n].end - b.subtitles[1].start
                /\ b.text = Flatten([m \in 1..n |-> b.subtitles[m].text])
                /\ b.image = NoImage

C14_Witness ==
    /\ cb.pc = "done"
    /\ Len(cb.blocks) >= 3
    /\ cb.blocks[2].duration < 0
    /\ Len(cb.blocks[2].subtitles) >= 2

\* C15: createBlocks does not validate its sizes: with minSize = 0 and
\* entries left, every iteration can draw size 0 and then consumes nothing
\* and pushes no block, so the loop can go on for ever (with maxSize = 0 as
\* well it always does); no zero-size block is ever pushed.
C15_ZeroMinCanSpin ==
    /\ (InLoop /\ cb.minBlockSize = 0) =>
           /\ [i |-> cb.i, blocks |-> cb.blocks]
                  \in BlockIter(cb.subtitles, cb.i, cb.blocks,
                                cb.minBlockSize, cb.maxBlockSize)
           /\ cb.maxBlockSize = 0 => (cb.i = 0 /\ cb.blocks = <<>>)
    /\ (cb.minBlockSize = 0 /\ cb.maxBlockSize = 0
           /\ Len(cb.subtitles) > 0) => cb.pc # "done"

\* more iterations than entries, nothing consumed, and still in the loop
C15_Witness ==
    /\ InLoop /\ cb.minBlockSize = 0 /\ cb.maxBlockSize > 0
    /\ cb.iter > Len(cb.subtitles)
    /\ cb.i = 0

\* C16: with 1 <= minSize <= maxSize no block has more than
\* minSize + maxSize - 1 entries: the merge adds fewer than minSize entries
\* to the candidate.
C16_MergeBound ==
    (cb.pc \in {"loop", "done"} /\ ValidSizes) =>
        \A k \in 1..Len(cb.blocks) :
            BlockSize(k) <= cb.minBlockSize + cb.maxBlockSize - 1

C16_Witness ==
    /\ cb.pc = "done" /\ ValidSizes
    /\ cb.minBlockSize >= 2
    /\ Len(cb.blocks) >= 2
    /\ BlockSize(Len(cb.blocks)) = cb.minBlockSize + cb.maxBlockSize - 1

(***************************************************************************)
(* Claims about analyzeSrt                                                 *)
(***************************************************************************)
WordsOf(entry) == (CHOOSE w \in WordedEntries : w.entry = entry).words

WordsExpected(subtitles) ==
    SumSeq([k \in 1..Len(subtitles) |-> WordsOf(subtitles[k])])

\* wpm is words / (millis / 1000) * 60 rounded to the nearest integer,
\* halves up
IsRounded(wpm, words, millis) ==
    /\ (2 * wpm - 1) * millis <= 2 * words * 60000
    /\ 2 * words * 60000 < (2 * wpm + 1) * millis

ExampleEntries ==
    <<AnEntry(1, 0, 20000, << <<"Hi", Sp, "there">> >>),
      AnEntry(1, 0, 20000, << <<"Hi", Sp, "there">> >>),
      AnEntry(2, 40000, 60000, << <<Sp, "two", Sp, Sp, "words", Sp>> >>)>>

\* C11: for a non-empty entry list analyzeSrt returns the entry count, the
\* block count, the end of the LAST entry (not the largest end) as total
\* duration, the number of white-space-delimited non-empty tokens of all
\* texts, and round(totalWords / totalDurationSeconds * 60) when the
\* duration is positive, 0 otherwise; three entries of two words ending at
\* 60 s give 6 words and 6 words per minute.
C11_Summary ==
    (an.pc = "done" /\ Len(an.subtitles) > 0) =>
        LET r == an.result
            last == an.subtitles[Len(an.subtitles)].end
        IN  /\ r.totalSubtitles = Len(an.subtitles)
            /\ r.blockCount = Len(an.blocks)
            /\ r.totalDurationSeconds = last
            /\ r.totalWords = WordsExpected(an.subtitles)
            /\ last > 0 => IsRounded(r.averageWPM, r.totalWords, last)
            /\ last <= 0 => r.averageWPM = 0
            /\ an.subtitles = ExampleEntries =>
                   (r.totalWords = 6 /\ r.averageWPM = 6)

\* a summary whose duration is the last end although an earlier entry ends
\* later, with a block count that differs from the entry count
C11_Witness ==
    /\ an.pc = "done"
    /\ Len(an.subtitles) = 3
    /\ an.subtitles[1].end > an.subtitles[3].end
    /\ an.result.totalDurationSeconds = an.subtitles[3].end
    /\ an.result.totalWords = 7
    /\ an.result.averageWPM > 0
    /\ an.result.blockCount = 2

\* C12: for an empty entry list analyzeSrt returns 0 in all five fields,
\* whatever the block list, and divides by nothing.
C12_EmptySummary ==
    (an.pc = "done" /\ Len(an.subtitles) = 0) =>
        an.result = [totalSubtitles |-> 0, totalDurationSeconds |-> 0,
                     totalWords |-> 0, averageWPM |-> 0, blockCount |-> 0]

C12_Witness ==
    /\ an.pc = "done"
    /\ an.subtitles = <<>>
    /\ Len(an.blocks) > 0
    /\ an.result.blockCount = 0

(***************************************************************************)
(* Claims about parseSrt                                                   *)
(***************************************************************************)
Kinds == [k \in 1..Len(ps.cues) |-> ps.cues[k].kind]

\* C4 as stated: parseSrt never throws on a malformed cue; a cue whose
\* timing line is absent or malformed (also "-->" without spaces, or halves
\* that are not HH:MM:SS,mmm) yields no entry and parsing goes on.
C4_NeverThrows ==
    /\ ps.pc # "threw"
    /\ \A k \in 1..Len(ps.subtitles) :
           ~IsNaN(ps.subtitles[k].start) /\ ~IsNaN(ps.subtitles[k].end)

\* C6 as stated: a file of N well-formed cues gives exactly N entries in
\* input order, the i-th with start and end equal to H*3600 + M*60 + S +
\* ms/1000 of its timing line and text equal to its text lines joined by
\* newline.
C6_WellFormedRoundTrip ==
    (ps.pc = "done" /\ \A k \in 1..Len(ps.cues) : Kinds[k] = "cue") =>
        ps.subtitles = [k \in 1..Len(ps.cues) |-> ps.cues[k].entry]

MalformedBetween ==
    /\ ps.pc = "done"
    /\ Kinds = <<"cue", "notiming", "cue">>

\* C7: a file with one cue without timing line between two well-formed cues
\* gives exactly two entries, the first with the index, start and end of
\* the first cue and the second with those of the last cue, and the two are
\* the entries parseSrt returns for the file made of the two well-formed
\* cues alone, whatever the text lines of the malformed cue.
C7_Resync ==
    MalformedBetween =>
        /\ Len(ps.subtitles) = 2
        /\ \A k \in 1..2 :
              LET e == ps.cues[2 * k - 1].entry
              IN  /\ ps.subtitles[k].id = e.id
                  /\ ps.subtitles[k].start = e.start
                  /\ ps.subtitles[k].end = e.end
        /\ ps.subtitles = ParseSrt(FileText(<<ps.cues[1], ps.cues[3]>>)).subtitles

C7_Witness ==
    /\ MalformedBetween
    /\ ps.cues[2].lines = << <<"5">>, <<"Hi">>, <<"Hi">>, <<"7">>, <<>> >>
    /\ Len(ps.subtitles) = 2

\* C9: every call ends. An iteration of parseSrt's loop moves the line
\* cursor forward or throws, so the call makes at most as many iterations
\* as there are lines, and at the end of the lines it returns; with
\* 1 <= minSize <= maxSize an iteration of createBlocks' loop consumes at
\* least one entry, whatever the draw, so the call makes at most as many
\* iterations as there are entries, and then returns.
C9_Terminates ==
    /\ [][/\ (ps.pc = "loop" /\ ps'.pc = "loop") => ps'.i > ps.i
          /\ (cb.pc = "loop" /\ cb'.pc = "loop" /\ ValidSizes) =>
                 /\ cb'.i > cb.i
                 /\ Len(Members(cb'.blocks)) > Len(Members(cb.blocks))
         ]_vars
    /\ [](ps.pc = "loop" =>
            /\ ps.iter <= Len(ps.lines)
            /\ ps.i >= Len(ps.lines) => ENABLED ParseReturn)
    /\ []((cb.pc = "loop" /\ ValidSizes) =>
            /\ cb.iter <= Len(cb.subtitles)
            /\ ENABLED SegNext)

C9_Witness ==
    /\ ps.pc = "done"
    /\ Len(ps.cues) = 3
    /\ ps.cues[1].kind = "notiming"
    /\ Len(ps.subtitles) = 2

(***************************************************************************)
(* Claims about the App component                                          *)
(***************************************************************************)
\* the load that the step delivers to handleSrtUpload
Delivered == CHOOSE r \in reader : r \notin reader'

\* C5 as stated: when the uploaded file parses to zero entries,
\* handleSrtUpload sets a user-facing error message and installs no blocks,
\* no analysis summary and no file name.
C5_ZeroEntriesIsFatal ==
    [][(reader' # reader /\ reader' \subseteq reader
          /\ ParsedFile[Delivered.file].pc = "done"
          /\ Len(ParsedFile[Delivered.file].subtitles) = 0) =>
          /\ app'.error # NullStr
          /\ app'.blocks = app.blocks
          /\ app'.srtAnalysis = app.srtAnalysis
          /\ app'.srtFileName = app.srtFileName]_vars

\* C8 as stated: after any sequence of size changes, uploads and Start
\* Over, createBlocks is only invoked with 1 <= minSize <= maxSize.
C8_ValidSizesAtCall ==
    [][(reader' # reader /\ reader' \subseteq reader
          /\ ParsedFile[Delivered.file].pc = "done") =>
          /\ ~IsNaN(Delivered.minBlockSize)
          /\ ~IsNaN(Delivered.maxBlockSize)
          /\ 1 <= Delivered.minBlockSize
          /\ Delivered.minBlockSize <= Delivered.maxBlockSize]_vars

(***************************************************************************)
(* Claims about the storyboard                                             *)
(***************************************************************************)
MemberCount(blocks) ==
    SumSeq([k \in 1..Len(blocks) |-> Len(blocks[k].subtitles)])

\* C17 as stated: whenever an analysis summary is present, its blockCount is
\* the current number of blocks and its totalSubtitles is the sum of the
\* blocks' member counts.
C17_SummaryMatchesBlocks ==
    app.srtAnalysis # Null =>
        /\ app.srtAnalysis[1].blockCount = Len(app.blocks)
        /\ app.srtAnalysis[1].totalSubtitles = MemberCount(app.blocks)

SameButImage(b, c) ==
    /\ b.id = c.id
    /\ b.subtitles = c.subtitles
    /\ b.text = c.text
    /\ b.duration = c.duration

\* the step gives file to the blocks numbered in targets and changes
\* nothing else of the block list
AssignsOnly(targets, file) ==
    /\ Len(app'.blocks) = Len(app.blocks)
    /\ \A k \in 1..Len(app.blocks) :
          /\ SameButImage(app.blocks[k], app'.blocks[k])
          /\ app'.blocks[k].image =
                 IF k \in targets THEN file[k] ELSE app.blocks[k].image

WithId(blockId) == {k \in 1..Len(app.blocks) : app.blocks[k].id = blockId}

\* C18: assigning images (to one block by id, manually or from a settled
\* AI request, or to the first k blocks in bulk) changes only the image
\* slot of the targeted blocks: the number and order of the blocks and
\* every block's id, members, text and duration stay, and untargeted
\* blocks keep their image.
C18_ImageFrame ==
    [][/\ \A k \in 1..Len(app.blocks) :
            HandleImageSelectOn(app.blocks[k].id, PhotoFile) =>
                AssignsOnly(WithId(app.blocks[k].id),
                            [j \in 1..Len(app.blocks) |-> PhotoFile])
       /\ \A n \in 0..MaxFiles :
            HandleBulkImageSelectOf(SubSeq(BulkFile, 1, n)) =>
                AssignsOnly(1..n, BulkFile)
       /\ \A request \in ai :
            GenerateImageFulfilledFor(request) =>
                AssignsOnly(WithId(request.blockId),
                            [j \in 1..Len(app.blocks) |-> AIFile])]_vars

\* two blocks, the first with a bulk file and the second with the image a
\* request gave it: each assignment left the other block alone
C18_Witness ==
    /\ Len(app.blocks) = 2
    /\ app.blocks[1].image = BulkFile[1]
    /\ app.blocks[2].image = AIFile
    /\ app.blocks[1].id = 1 /\ app.blocks[2].id = 2
    /\ app.srtAnalysis # Null
    /\ app.srtAnalysis[1].totalSubtitles = MemberCount(app.blocks)

\* C19 as stated: while a request for a block is in flight,
\* generatingAIImageBlockId is that block's id, also when requests for
\* several blocks overlap.
C19_MarkedWhilePending ==
    \A request \in ai : app.generatingAIImageBlockId = request.blockId

\* C20 as stated: the image a request returns is only assigned to a block
\* whose text is the text the request was made with.
C20_SameTextAsRequested ==
    [][\A request \in ai :
          GenerateImageFulfilledFor(request) =>
              \A k \in 1..Len(app.blocks) :
                  (app.blocks[k].id = request.blockId
                      /\ app'.blocks[k].image = AIFile) =>
                          app.blocks[k].text = request.text]_vars

====
